---- MODULE Spec2Model ----
(***************************************************************************)
(* Trie-Word-Suggester (src/main.c): a letter tree of words with           *)
(* frequencies, prefix search ranked by frequency, a bounded best-10       *)
(* suggestion list, and spell correction by Levenshtein distance.          *)
(*                                                                         *)
(* A C string is a sequence of its bytes (ASCII codes), so that tolower,   *)
(* the child index c - 'a' and byte order are computed, not assumed.       *)
(* A trie is a function from node paths (sequences of child indices        *)
(* 0..25, the root being <<>>) to node records: children[i] of node p is   *)
(* non-NULL exactly when Append(p, i) is in the domain.                    *)
(***************************************************************************)
EXTENDS Integers, Sequences, FiniteSets, TLC

VARIABLES pc, trie, dict, count, out,   \* main(): position, root, dict, i, last output
          hist,                         \* every insertWord call made, in order
          list, offered,                \* a SuggestionList and the offers it received
          s, t, d                       \* levenshteinDistance: arguments and result

vars == <<pc, trie, dict, count, out, hist, list, offered, s, t, d>>

progVars == <<pc, trie, dict, count, out>>
rankVars == <<list, offered>>
distVars == <<s, t, d>>

-----------------------------------------------------------------------------
(* Program constants *)

ALPHABET_SIZE == 26
MAX_WORD_LENGTH == 100
MAX_SUGGESTIONS == 10
MAX_WORDS == 1000
MAX_LEVENSHTEIN_DISTANCE == 2
INT_MAX == 2147483647

NULL == <<>>

-----------------------------------------------------------------------------
(* Writing C string literals: Str(<<"a","p","t">>) is the byte string "apt" *)

LowerLetters == <<"a","b","c","d","e","f","g","h","i","j","k","l","m",
                  "n","o","p","q","r","s","t","u","v","w","x","y","z">>
UpperLetters == <<"A","B","C","D","E","F","G","H","I","J","K","L","M",
                  "N","O","P","Q","R","S","T","U","V","W","X","Y","Z">>

Ord(ch) ==
    IF \E k \in 1..26 : LowerLetters[k] = ch
    THEN 96 + (CHOOSE k \in 1..26 : LowerLetters[k] = ch)
    ELSE 64 + (CHOOSE k \in 1..26 : UpperLetters[k] = ch)

Str(chars) == [k \in 1..Len(chars) |-> Ord(chars[k])]

-----------------------------------------------------------------------------
(* ctype and string helpers *)

tolower(c) == IF c \in 65..90 THEN c + 32 ELSE c

isalpha(c) == c \in 65..90 \/ c \in 97..122

strtolower(str) == [k \in 1..Len(str) |-> tolower(str[k])]

isValidWord(str) == \A k \in 1..Len(str) : isalpha(str[k])

\* strcmp(a, b) < 0, = 0, > 0 as -1, 0, 1: unsigned bytes, a proper prefix first
RECURSIVE strcmp(_, _)
strcmp(a, b) ==
    IF a = <<>> /\ b = <<>> THEN 0
    ELSE IF a = <<>> THEN -1
    ELSE IF b = <<>> THEN 1
    ELSE IF Head(a) < Head(b) THEN -1
    ELSE IF Head(a) > Head(b) THEN 1
    ELSE strcmp(Tail(a), Tail(b))

-----------------------------------------------------------------------------
(* Trie *)

createTrieNode == [isEndOfWord |-> FALSE, originalWord |-> NULL, frequency |-> 0]

EmptyTrie == [p \in {<<>>} |-> createTrieNode]

\* the node path of a lower-cased string: index = lowerWord[i] - 'a'
PathOf(lower) == [k \in 1..Len(lower) |-> lower[k] - 97]

insertWordGE(root, word, frequency) ==
    IF word = <<>> THEN root
    ELSE
      LET lowerWord == strtolower(word)
          path      == PathOf(lowerWord)
          created   == {SubSeq(path, 1, k) : k \in 1..Len(path)}
          linked    == [p \in (DOMAIN root) \cup created |->
                          IF p \in DOMAIN root THEN root[p] ELSE createTrieNode]
          current   == linked[path]
      IN  [linked EXCEPT ![path] =
              IF current.originalWord = NULL \/ frequency >= current.frequency
              THEN [isEndOfWord |-> TRUE, originalWord |-> word, frequency |-> frequency]
              ELSE [current EXCEPT !.isEndOfWord = TRUE]]

insertWord(root, word, frequency) ==
    IF word = <<>> THEN root
    ELSE
      LET lowerWord == strtolower(word)
          path      == PathOf(lowerWord)
          created   == {SubSeq(path, 1, k) : k \in 1..Len(path)}
          linked    == [p \in (DOMAIN root) \cup created |->
                          IF p \in DOMAIN root THEN root[p] ELSE createTrieNode]
          current   == linked[path]
      IN  [linked EXCEPT ![path] =
              IF current.originalWord = NULL \/ frequency > current.frequency
              THEN [isEndOfWord |-> TRUE, originalWord |-> word, frequency |-> frequency]
              ELSE [current EXCEPT !.isEndOfWord = TRUE]]

\* the walk of searchWordsByPrefix and of main's case 1: is every child there?
PathExists(root, lowerPrefix) == PathOf(lowerPrefix) \in DOMAIN root

\* the indices i < ALPHABET_SIZE with children[i] != NULL at node p
NonNullChildren(root, p) ==
    {c \in 0..(ALPHABET_SIZE - 1) : Append(p, c) \in DOMAIN root}

Terminals(root) == {p \in DOMAIN root : root[p].isEndOfWord}

-----------------------------------------------------------------------------
(* Suggestion list *)

Suggestion(word, distance, frequency) ==
    [word |-> word, distance |-> distance, frequency |-> frequency]

\* count = 0; the slots at and above count are never read
initSuggestionList == <<>>

\* lines 123-125: does slot a displace slot b as the worst one?
WorseThanFirstOnly(a, b) == FALSE

WorseThan(a, b) ==
    \/ a.distance > b.distance
    \/ (a.distance = b.distance /\ a.frequency < b.frequency)

\* lines 121-128: the scan for worst_idx, slots 1-based
RECURSIVE WorstScan(_, _, _)
WorstScan(lst, k, worst_idx) ==
    IF k > MAX_SUGGESTIONS THEN worst_idx
    ELSE WorstScan(lst, k + 1,
                   IF WorseThan(lst[k], lst[worst_idx]) THEN k ELSE worst_idx)

\* lines 131-133: is the new suggestion better than the worst one kept?
BetterThan(distance, frequency, worst) ==
    \/ distance < worst.distance
    \/ (distance = worst.distance /\ frequency > worst.frequency)

addSuggestion(lst, word, distance, frequency) ==
    IF Len(lst) < MAX_SUGGESTIONS
    THEN Append(lst, Suggestion(word, distance, frequency))
    ELSE LET worst_idx == WorstScan(lst, 2, 1)
         IN  IF BetterThan(distance, frequency, lst[worst_idx])
             THEN [lst EXCEPT ![worst_idx] = Suggestion(word, distance, frequency)]
             ELSE lst

\* a - b in int: a difference that leaves the int range is undefined behaviour;
\* the builds return it wrapped to 32 bits (two's complement), computed here
\* without leaving that range
IntSub(a, b) ==
    IF b < 0 /\ a > INT_MAX + b
    THEN (a - INT_MAX - 1) + ((-(b + 1)) - INT_MAX)
    ELSE IF b > 0 /\ a < (-INT_MAX - 1) + b
    THEN (a + INT_MAX + 1) + ((INT_MAX - b) + 1)
    ELSE a - b

compareSuggestions(sa, sb) ==
    IF sa.distance # sb.distance
    THEN IntSub(sa.distance, sb.distance)
    ELSE IntSub(sb.frequency, sa.frequency)

RemoveAt(arr, k) == SubSeq(arr, 1, k - 1) \o SubSeq(arr, k + 1, Len(arr))

\* every arrangement of an array
RECURSIVE Arrangements(_)
Arrangements(arr) ==
    IF arr = <<>> THEN {<<>>}
    ELSE UNION { {<<arr[k]>> \o r : r \in Arrangements(RemoveAt(arr, k))} :
                 k \in 1..Len(arr) }

\* every arrangement in which no element compares greater than a later one;
\* the order of elements that compare equal is the library's choice
RECURSIVE SortedArrangements(_)
SortedArrangements(arr) ==
    IF arr = <<>> THEN {<<>>}
    ELSE UNION { {<<arr[k]>> \o r : r \in SortedArrangements(RemoveAt(arr, k))} :
                 k \in {m \in 1..Len(arr) :
                          \A j \in 1..Len(arr) : compareSuggestions(arr[m], arr[j]) <= 0} }

Sign(x) == IF x < 0 THEN -1 ELSE IF x > 0 THEN 1 ELSE 0

\* does compareSuggestions order these elements consistently, as qsort requires?
\* (a wrapped difference can make it contradict itself)
ConsistentOrder(arr) ==
    /\ \A i, j \in 1..Len(arr) :
          Sign(compareSuggestions(arr[i], arr[j])) = -Sign(compareSuggestions(arr[j], arr[i]))
    /\ \A i, j, k \in 1..Len(arr) :
          (compareSuggestions(arr[i], arr[j]) <= 0 /\ compareSuggestions(arr[j], arr[k]) <= 0)
              => compareSuggestions(arr[i], arr[k]) <= 0

\* qsort(..., compareSuggestions): a sorted arrangement; with a comparator that
\* contradicts itself the result is undefined, any arrangement
qsortSuggestions(arr) ==
    IF ConsistentOrder(arr) THEN SortedArrangements(arr) ELSE Arrangements(arr)

\* the print loops: i < suggestions.count && i < MAX_SUGGESTIONS
Printed(arr) ==
    SubSeq(arr, 1, IF Len(arr) < MAX_SUGGESTIONS THEN Len(arr) ELSE MAX_SUGGESTIONS)

-----------------------------------------------------------------------------
(* Prefix search *)

collectNodeOnly(root, p, suggestions) ==
    IF root[p].isEndOfWord
    THEN addSuggestion(suggestions, root[p].originalWord, 0, root[p].frequency)
    ELSE suggestions

RECURSIVE collectSuggestions(_, _, _)
RECURSIVE collectChildren(_, _, _, _)

\* lines 161-165: the loop over children[k..25], stepping to the next non-NULL one
collectChildren(root, p, k, suggestions) ==
    LET rest == {c \in NonNullChildren(root, p) : c >= k}
    IN  IF rest = {} THEN suggestions
        ELSE LET c == CHOOSE c \in rest : \A c2 \in rest : c <= c2
             IN  collectChildren(root, p, c + 1,
                                 collectSuggestions(root, Append(p, c), suggestions))

collectSuggestions(root, p, suggestions) ==
    collectChildren(root, p, 0,
        IF root[p].isEndOfWord
        THEN addSuggestion(suggestions, root[p].originalWord, 0, root[p].frequency)
        ELSE suggestions)

searchFromRoot(root, prefix) ==
    {Printed(r) : r \in qsortSuggestions(
        collectSuggestions(root, <<>>, initSuggestionList))}

\* the lists searchWordsByPrefix can print; <<>> is "No suggestions found"
searchWordsByPrefix(root, prefix) ==
    LET lowerPrefix == strtolower(prefix)
    IN  IF ~PathExists(root, lowerPrefix) THEN {<<>>}
        ELSE {Printed(r) : r \in qsortSuggestions(
                 collectSuggestions(root, PathOf(lowerPrefix), initSuggestionList))}

-----------------------------------------------------------------------------
(* Levenshtein distance, two rolling rows *)

\* line 227
costAlwaysOne(a, b) == 1

cost(a, b) == IF a = b THEN 0 ELSE 1

CellNoSubstitution(prevj, currj1, prevj1, c) ==
    IF prevj + 1 < currj1 + 1 THEN prevj + 1 ELSE currj1 + 1

\* lines 228-230
Cell(prevj, currj1, prevj1, c) ==
    IF prevj + 1 < currj1 + 1
    THEN (IF prevj + 1 < prevj1 + c THEN prevj + 1 ELSE prevj1 + c)
    ELSE (IF currj1 + 1 < prevj1 + c THEN currj1 + 1 ELSE prevj1 + c)

\* lines 225-231: curr[0..j-1] is filled (as a sequence, curr[j] is at j + 1)
RECURSIVE FillRow(_, _, _, _, _)
FillRow(sv, tv, k, prev, curr) ==
    IF Len(curr) = Len(tv) + 1 THEN curr
    ELSE LET j == Len(curr)
         IN  FillRow(sv, tv, k, prev,
                     Append(curr, Cell(prev[j + 1], curr[j], prev[j],
                                       cost(sv[k], tv[j]))))

\* lines 224-236: row i computed from prev, then the rows are swapped
RECURSIVE Rows(_, _, _, _)
Rows(sv, tv, k, prev) ==
    IF k > Len(sv) THEN prev
    ELSE Rows(sv, tv, k + 1, FillRow(sv, tv, k, prev, <<k>>))

levenshteinZeroOnFailure(sv, tv, mallocOk) ==
    IF ~mallocOk THEN 0
    ELSE Rows(sv, tv, 1, [j \in 1..(Len(tv) + 1) |-> j - 1])[Len(tv) + 1]

levenshteinDistance(sv, tv, mallocOk) ==
    IF ~mallocOk THEN INT_MAX
    ELSE Rows(sv, tv, 1, [j \in 1..(Len(tv) + 1) |-> j - 1])[Len(tv) + 1]

-----------------------------------------------------------------------------
(* Spell correction *)

RECURSIVE collectAllWords(_, _, _)
RECURSIVE collectAllChildren(_, _, _, _)

\* lines 252-256: the loop over children[k..25], stepping to the next non-NULL one
collectAllChildren(root, p, k, dct) ==
    LET rest == {c \in NonNullChildren(root, p) : c >= k}
    IN  IF rest = {} THEN dct
        ELSE LET c == CHOOSE c \in rest : \A c2 \in rest : c <= c2
             IN  collectAllChildren(root, p, c + 1,
                                    collectAllWords(root, Append(p, c), dct))

collectAllWords(root, p, dct) ==
    collectAllChildren(root, p, 0,
        IF root[p].isEndOfWord /\ root[p].originalWord # NULL /\ Len(dct) < MAX_WORDS
        THEN Append(dct, root[p].originalWord)
        ELSE dct)

\* line 276
QualifiesWithin3(distance) == distance <= 3

Qualifies(distance) == distance <= MAX_LEVENSHTEIN_DISTANCE

\* lines 269-280: mallocOk[i] says whether the rows for dict->words[i] are allocated
RECURSIVE ScoreWords(_, _, _, _, _)
ScoreWords(lowerInput, dct, mallocOk, k, suggestions) ==
    IF k > Len(dct) THEN suggestions
    ELSE LET distance == levenshteinDistance(lowerInput, strtolower(dct[k]), mallocOk[k])
         IN  ScoreWords(lowerInput, dct, mallocOk, k + 1,
                        IF Qualifies(distance)
                        THEN addSuggestion(suggestions, dct[k], distance, 0)
                        ELSE suggestions)

\* the lists suggestSimilarWords can print; <<>> is no list at all
suggestSimilarWords(input, dct, mallocOk) ==
    IF Len(dct) = 0 THEN {<<>>}
    ELSE {Printed(r) : r \in qsortSuggestions(
             ScoreWords(strtolower(input), dct, mallocOk, 1, initSuggestionList))}

AllOk(dct) == [k \in 1..Len(dct) |-> TRUE]

-----------------------------------------------------------------------------
(* Show all words *)

\* qsort(allWords.words, ..., strcmp): the comparator is handed the addresses of
\* the array slots, so strcmp reads the bytes of the char* values themselves.
\* The order produced is that of the strdup addresses, which the program does
\* not determine: any arrangement of the words.
qsortStrcmp(words) == Arrangements(words)

showAllWords(root) == qsortStrcmp(collectAllWords(root, <<>>, <<>>))

-----------------------------------------------------------------------------
(* Teardown *)

\* what a freed string reads as: nothing the program can use
FREED == <<-1>>

\* every node is freed, the root included: no node is left
freeTrie(root) == [p \in {} |-> createTrieNode]

\* the words are freed; dict.count and the (dangling) slots are left as they are
freeDictionary(dct) == [k \in 1..Len(dct) |-> FREED]

-----------------------------------------------------------------------------
(* Inputs and bounds *)

MaxInserts == 3        \* words read by main before the menu
MaxHist == 4           \* insertWord calls followed for the merge rule
MaxBigInserts == 11    \* words read when more than MAX_SUGGESTIONS can match
MaxOffers == 12        \* addSuggestion calls on one list
MaxLen == 3            \* length of the strings whose distance is computed

Entry(chars, frequency) == [word |-> Str(chars), frequency |-> frequency]

\* the scenarios' vocabulary
\* with the empty word (token ":5") and the extreme frequencies atoi lets through
Pool ==
    { Entry(<<"a","p","p","l","e">>, 5), Entry(<<"a","p","p">>, 3),
      Entry(<<"a","p","t">>, 1), Entry(<<"H","e","l","l","o">>, 5),
      Entry(<<"B","a","n","a","n","a">>, 1), Entry(<<"C","h","e","r","r","y">>, 1),
      Entry(<<"h","e","l","p">>, INT_MAX), Entry(<<"h","e","n">>, -2),
      Entry(<<>>, 5) }

Prefixes ==
    { Str(<<"a","p">>), Str(<<"h","e","l">>), Str(<<"a","p","l","e">>),
      Str(<<"x">>), Str(<<"A","P","P">>), Str(<<"c","h","e","r","y">>),
      Str(<<"h","e">>) }

\* spellings of the same words in different case, each with several frequencies
SpellPool ==
    { [word |-> Str(w), frequency |-> f] :
        w \in { <<"a","b">>, <<"A","b">>, <<"A","B">>, <<"a">> }, f \in 0..2 }
    \cup { Entry(<<>>, 1) }

\* more than MAX_SUGGESTIONS words under one prefix
BigPool ==
    { Entry(<<"H","e","l","l","o">>, 5), Entry(<<"H","e">>, 4),
      Entry(<<"h","e","l","p">>, 9), Entry(<<"h","e","l","l">>, 3),
      Entry(<<"H","E","L","D">>, 12), Entry(<<"h","e","n">>, 1),
      Entry(<<"h","e","r">>, 7), Entry(<<"h","a","t">>, 2),
      Entry(<<"H","a","m">>, 11), Entry(<<"h","i">>, 6),
      Entry(<<"h","o","t">>, 8) }

BigPrefixes == { Str(<<"h">>), Str(<<"h","e","l">>), Str(<<"x">>) }

\* the keys offered to one list: a best one, and two that tie on distance
OfferKeys == { [distance |-> 0, frequency |-> 0],
               [distance |-> 1, frequency |-> 1],
               [distance |-> 1, frequency |-> 0] }

OfferWord == Str(<<"w">>)

DistAlphabet == {Ord("a"), Ord("b")}

StringsUpTo(n) == UNION {[1..k -> DistAlphabet] : k \in 0..n}

kitten == Str(<<"k","i","t","t","e","n">>)
sitting == Str(<<"s","i","t","t","i","n","g">>)

DistPairs == (StringsUpTo(MaxLen) \X StringsUpTo(MaxLen)) \cup {<<kitten, sitting>>}

-----------------------------------------------------------------------------
(* main(): read the words, snapshot the dictionary, serve the menu *)

NoOutput == [op |-> "none", input |-> <<>>, found |-> FALSE, list |-> <<>>,
             words |-> <<>>, mallocOk |-> <<>>]

InitProg ==
    /\ pc = "read"
    /\ trie = EmptyTrie
    /\ dict = <<>>
    /\ count = 0
    /\ out = NoOutput

IdleRank == list = initSuggestionList /\ offered = [k \in OfferKeys |-> 0]
IdleDist == s = <<>> /\ t = <<>> /\ d = -1

Init == InitProg /\ hist = <<>> /\ IdleRank /\ IdleDist

\* lines 341-365, one token that passes line 358 (the empty word does):
\* insertWord(root, input, frequency); i++
InsertStep(e, max) ==
    /\ pc = "read"
    /\ count < max
    /\ Len(e.word) < MAX_WORD_LENGTH /\ isValidWord(e.word)
    /\ trie' = insertWord(trie, e.word, e.frequency)
    /\ count' = count + 1
    /\ UNCHANGED <<pc, dict, out, rankVars, distVars>>

ReadWord(e, max) == InsertStep(e, max) /\ UNCHANGED hist

\* the same step, with the call recorded
ReadWordLogged(e, max) == InsertStep(e, max) /\ hist' = Append(hist, e)

\* line 368, once the n >= 1 words are read: collectAllWords(root, &dict)
FinishReading ==
    /\ pc = "read"
    /\ count >= 1
    /\ dict' = collectAllWords(trie, <<>>, dict)
    /\ pc' = "menu"
    /\ UNCHANGED <<trie, count, out, hist, rankVars, distVars>>

\* lines 379-409, menu choice 1; masks: which working-row allocations succeed
Search(prefix, masks) ==
    /\ pc = "menu"
    /\ isValidWord(prefix)
    /\ LET found == PathExists(trie, strtolower(prefix))
       IN  IF found
           THEN \E r \in searchWordsByPrefix(trie, prefix) :
                  out' = [op |-> "search", input |-> prefix, found |-> TRUE,
                          list |-> r, words |-> <<>>, mallocOk |-> <<>>]
           ELSE \E m \in masks :
                  \E r \in suggestSimilarWords(prefix, dict, m) :
                    out' = [op |-> "search", input |-> prefix, found |-> FALSE,
                            list |-> r, words |-> <<>>, mallocOk |-> m]
    /\ UNCHANGED <<pc, trie, dict, count, hist, rankVars, distVars>>

\* lines 410-425, menu choice 2
ShowAll ==
    /\ pc = "menu"
    /\ \E r \in showAllWords(trie) :
         out' = [op |-> "all", input |-> <<>>, found |-> FALSE, list |-> <<>>,
                 words |-> r, mallocOk |-> <<>>]
    /\ UNCHANGED <<pc, trie, dict, count, hist, rankVars, distVars>>

\* lines 426-428 and 432-436, menu choice 3: freeTrie(root); freeDictionary(&dict)
Exit ==
    /\ pc = "menu"
    /\ pc' = "done"
    /\ trie' = freeTrie(trie)
    /\ dict' = freeDictionary(dict)
    /\ UNCHANGED <<count, out, hist, rankVars, distVars>>

Next ==
    \/ \E e \in Pool : ReadWord(e, MaxInserts)
    \/ FinishReading
    \/ \E p \in Prefixes : Search(p, {AllOk(dict)})
    \/ ShowAll
    \/ Exit

Spec == Init /\ [][Next]_vars

\* the reading loop alone, on spellings that fold to the same words
NextTrie == \E e \in SpellPool : ReadWordLogged(e, MaxHist)

SpecTrie == Init /\ [][NextTrie]_vars

\* a vocabulary with more than MAX_SUGGESTIONS words under one prefix
NextBig ==
    \/ \E e \in BigPool : ReadWord(e, MaxBigInserts)
    \/ FinishReading
    \/ \E p \in BigPrefixes : Search(p, {AllOk(dict)})

SpecBig == Init /\ [][NextBig]_vars

\* malloc in levenshteinDistance may return NULL for any of the words scored
NextAlloc ==
    \/ \E e \in Pool : ReadWord(e, MaxInserts)
    \/ FinishReading
    \/ \E p \in Prefixes : Search(p, [1..Len(dict) -> BOOLEAN])

SpecAlloc == Init /\ [][NextAlloc]_vars

-----------------------------------------------------------------------------
(* One SuggestionList receiving offers *)

Offered == offered[[distance |-> 0, frequency |-> 0]]
           + offered[[distance |-> 1, frequency |-> 1]]
           + offered[[distance |-> 1, frequency |-> 0]]

Offer(k) ==
    /\ Offered < MaxOffers
    /\ list' = addSuggestion(list, OfferWord, k.distance, k.frequency)
    /\ offered' = [offered EXCEPT ![k] = @ + 1]
    /\ UNCHANGED <<progVars, hist, distVars>>

NextRank == \E k \in OfferKeys : Offer(k)

SpecRank == Init /\ [][NextRank]_vars

-----------------------------------------------------------------------------
(* One call of levenshteinDistance *)

InitDist ==
    /\ InitProg /\ hist = <<>> /\ IdleRank
    /\ \E pr \in DistPairs : s = pr[1] /\ t = pr[2]
    /\ d = -1

Distance ==
    /\ d = -1
    /\ d' = levenshteinDistance(s, t, TRUE)
    /\ UNCHANGED <<progVars, hist, rankVars, s, t>>

NextDist == Distance

SpecDist == InitDist /\ [][NextDist]_vars

-----------------------------------------------------------------------------
(* Vocabulary of the properties *)

IsPrefix(a, b) == Len(a) <= Len(b) /\ SubSeq(b, 1, Len(a)) = a

Range(f) == {f[k] : k \in DOMAIN f}

StoredWords == {trie[p].originalWord : p \in Terminals(trie)}

HasWordWithPrefix(prefix) ==
    \E p \in Terminals(trie) :
        IsPrefix(strtolower(prefix), strtolower(trie[p].originalWord))

Stores(chars, frequency) ==
    LET p == PathOf(strtolower(Str(chars)))
    IN  /\ p \in DOMAIN trie
        /\ trie[p].isEndOfWord
        /\ trie[p].originalWord = Str(chars)
        /\ trie[p].frequency = frequency

\* the last output is a search, or a listing, of the trie as it stands
Searched == pc = "menu" /\ out.op = "search"

Listed == pc = "menu" /\ out.op = "all"

Fuzzy == Searched /\ ~out.found

\* the distance the matcher is meant to compute for dictionary word k
TrueDistance(k) ==
    levenshteinDistance(strtolower(out.input), strtolower(dict[k]), TRUE)

\* the least number of single-character edits from a to b, by exhaustive
\* search through the strings of length <= MaxLen + 1
Edits(x) ==
    {RemoveAt(x, k) : k \in 1..Len(x)}
    \cup {[x EXCEPT ![k] = c] : k \in 1..Len(x), c \in DistAlphabet}
    \cup (IF Len(x) > MaxLen THEN {}
          ELSE {SubSeq(x, 1, k) \o <<c>> \o SubSeq(x, k + 1, Len(x)) :
                  k \in 0..Len(x), c \in DistAlphabet})

RECURSIVE MinEdits(_, _, _)
MinEdits(reached, b, n) ==
    IF b \in reached THEN n
    ELSE MinEdits(reached \cup UNION {Edits(x) : x \in reached}, b, n + 1)

-----------------------------------------------------------------------------
\* C1: after any sequence of insertWord calls, the node of every inserted
\* case-folded word is terminal, holds the maximum frequency over the calls that
\* fold to it, and holds the spelling of the earliest call with that maximum.
C1_MaxFrequencyFirstSpelling ==
    \A k \in {k \in 1..Len(hist) : hist[k].word # <<>>} :
        LET w     == strtolower(hist[k].word)
            same  == {j \in 1..Len(hist) : strtolower(hist[j].word) = w}
            maxf  == CHOOSE f \in {hist[j].frequency : j \in same} :
                        \A j \in same : hist[j].frequency <= f
            first == CHOOSE j \in same :
                        /\ hist[j].frequency = maxf
                        /\ \A j2 \in same : hist[j2].frequency = maxf => j <= j2
        IN  /\ PathOf(w) \in DOMAIN trie
            /\ trie[PathOf(w)].isEndOfWord
            /\ trie[PathOf(w)].frequency = maxf
            /\ trie[PathOf(w)].originalWord = hist[first].word

\* a word inserted low, then at its maximum, then at the same maximum in another spelling
C1_Witness ==
    \E a, b, c \in 1..Len(hist) :
        /\ a < b /\ b < c
        /\ strtolower(hist[a].word) = strtolower(hist[b].word)
        /\ strtolower(hist[b].word) = strtolower(hist[c].word)
        /\ hist[a].frequency < hist[b].frequency
        /\ hist[b].frequency = hist[c].frequency
        /\ hist[b].word # hist[c].word
        /\ trie[PathOf(strtolower(hist[b].word))].originalWord = hist[b].word

\* C2: a prefix search that finds the prefix prints at most 10 suggestions, each
\* a stored canonical word whose case-folded form starts with the case-folded
\* prefix, with its stored frequency; "Hello":5 is found under "hel" as "Hello", 5.
C2_PrefixResults ==
    (Searched /\ out.found) =>
        /\ Len(out.list) <= 10
        /\ \A k \in 1..Len(out.list) :
              /\ \E p \in Terminals(trie) :
                    /\ trie[p].originalWord = out.list[k].word
                    /\ trie[p].frequency = out.list[k].frequency
              /\ IsPrefix(strtolower(out.input), strtolower(out.list[k].word))
        /\ (Stores(<<"H","e","l","l","o">>, 5) /\ out.input = Str(<<"h","e","l">>)) =>
              \E k \in 1..Len(out.list) :
                  /\ out.list[k].word = Str(<<"H","e","l","l","o">>)
                  /\ out.list[k].frequency = 5

\* eleven stored words match the prefix and ten are printed
C2_Witness ==
    /\ Searched /\ out.found
    /\ Cardinality({p \in Terminals(trie) :
          IsPrefix(strtolower(out.input), strtolower(trie[p].originalWord))}) = 11
    /\ Len(out.list) = 10

\* C3: the prefix is not found exactly when no stored word starts with it, and a
\* prefix that is found always yields a non-empty list; on the empty store "x" is
\* not found and spell correction of "x" yields nothing.
C3_NotFoundIffNoWord ==
    /\ \A p \in Prefixes : PathExists(trie, strtolower(p)) <=> HasWordWithPrefix(p)
    /\ Searched =>
          /\ out.found <=> HasWordWithPrefix(out.input)
          /\ out.found => out.list # <<>>
          /\ Terminals(trie) = {} => out.list = <<>>
    /\ trie = EmptyTrie =>
          /\ ~PathExists(trie, strtolower(Str(<<"x">>)))
          /\ searchWordsByPrefix(trie, Str(<<"x">>)) = {<<>>}
          /\ suggestSimilarWords(Str(<<"x">>), dict, AllOk(dict)) = {<<>>}

\* the prefix is found at a node that is not itself a word
C3_Witness ==
    /\ Searched /\ out.found
    /\ ~trie[PathOf(strtolower(out.input))].isEndOfWord
    /\ out.list # <<>>

\* C4: "show all words" lists every stored canonical word exactly once, in
\* ascending byte order of the words.
C4_ListAllSorted ==
    Listed =>
        /\ Range(out.words) = StoredWords
        /\ Len(out.words) = Cardinality(StoredWords)
        /\ \A i, j \in 1..Len(out.words) :
              i < j => strcmp(out.words[i], out.words[j]) < 0

ScenarioB ==
    /\ Fuzzy
    /\ out.input = Str(<<"a","p","l","e">>)
    /\ Range(dict) = {Str(<<"a","p","p","l","e">>), Str(<<"a","p","p">>), Str(<<"a","p","t">>)}

Dist(a, b) == levenshteinDistance(Str(a), Str(b), TRUE)

\* C5 as stated: with the vocabulary apple, app, apt, correcting "aple" finds
\* the distances 1, 2 and 3 and prints exactly apple (1), app (2).
C5_ScenarioB_AsStated ==
    ScenarioB =>
        /\ Dist(<<"a","p","l","e">>, <<"a","p","p","l","e">>) = 1
        /\ Dist(<<"a","p","l","e">>, <<"a","p","p">>) = 2
        /\ Dist(<<"a","p","l","e">>, <<"a","p","t">>) = 3
        /\ out.list = << Suggestion(Str(<<"a","p","p","l","e">>), 1, 0),
                         Suggestion(Str(<<"a","p","p">>), 2, 0) >>

\* C5 amended: the distances are 1, 2 and 2, and the list is apple (1) followed
\* by app (2) and apt (2), these two in either order.
C5_ScenarioB ==
    ScenarioB =>
        /\ Dist(<<"a","p","l","e">>, <<"a","p","p","l","e">>) = 1
        /\ Dist(<<"a","p","l","e">>, <<"a","p","p">>) = 2
        /\ Dist(<<"a","p","l","e">>, <<"a","p","t">>) = 2
        /\ Len(out.list) = 3
        /\ out.list[1] = Suggestion(Str(<<"a","p","p","l","e">>), 1, 0)
        /\ {out.list[2], out.list[3]} =
              { Suggestion(Str(<<"a","p","p">>), 2, 0),
                Suggestion(Str(<<"a","p","t">>), 2, 0) }

C5_Witness == ScenarioB /\ Len(out.list) = 3

\* C6: levenshteinDistance(s, t) is the least number of single-character
\* insertions, deletions and substitutions turning s into t; it is 0 on equal
\* strings, symmetric, obeys the triangle inequality, and is 3 on kitten/sitting.
C6_EditDistance ==
    d # -1 =>
        /\ (Len(s) <= MaxLen /\ Len(t) <= MaxLen) => d = MinEdits({s}, t, 0)
        /\ s = t => d = 0
        /\ d = levenshteinDistance(t, s, TRUE)
        /\ \A u \in StringsUpTo(MaxLen) :
              d <= levenshteinDistance(s, u, TRUE) + levenshteinDistance(u, t, TRUE)
        /\ (s = kitten /\ t = sitting) => d = 3

C6_Witness == s = kitten /\ t = sitting /\ d = 3

\* C7: spell correction prints no word farther than 2 from the input (both
\* case-folded), prints every dictionary word within 2 when at most 10 qualify,
\* and the dictionary holds every canonical word stored in the trie.
C7_FuzzyResults ==
    /\ pc = "menu" =>
          /\ Range(dict) = StoredWords
          /\ Len(dict) = Cardinality(StoredWords)
    /\ Fuzzy =>
          LET within == {k \in 1..Len(dict) : TrueDistance(k) <= 2}
          IN  /\ \A k \in 1..Len(out.list) :
                    \E j \in within :
                        /\ out.list[k].word = dict[j]
                        /\ out.list[k].distance = TrueDistance(j)
              /\ Cardinality(within) <= 10 =>
                    \A j \in within : \E k \in 1..Len(out.list) : out.list[k].word = dict[j]

\* some words are printed and some stored word is left out as too far
C7_Witness ==
    /\ Fuzzy
    /\ out.list # <<>>
    /\ \E j \in 1..Len(dict) :
          /\ TrueDistance(j) > 2
          /\ \A k \in 1..Len(out.list) : out.list[k].word # dict[j]

\* C8: every printed list is ordered by distance ascending and, at equal
\* distance, by frequency descending; after apple:5, app:3, apt:1 the prefix "ap"
\* prints apple(5), app(3), apt(1).
C8_Ordered ==
    Searched =>
        /\ \A i, j \in 1..Len(out.list) :
              i < j =>
                \/ out.list[i].distance < out.list[j].distance
                \/ /\ out.list[i].distance = out.list[j].distance
                   /\ out.list[i].frequency >= out.list[j].frequency
        /\ out.found => \A k \in 1..Len(out.list) : out.list[k].distance = 0
        /\ ( /\ Stores(<<"a","p","p","l","e">>, 5)
             /\ Stores(<<"a","p","p">>, 3)
             /\ Stores(<<"a","p","t">>, 1)
             /\ out.input = Str(<<"a","p">>) ) =>
              out.list = << Suggestion(Str(<<"a","p","p","l","e">>), 0, 5),
                            Suggestion(Str(<<"a","p","p">>), 0, 3),
                            Suggestion(Str(<<"a","p","t">>), 0, 1) >>

\* C9 as stated: spell correction never completes with a list that leaves out
\* a dictionary word within distance 2 because the rows for it were not allocated.
C9_NoSilentOmission ==
    Fuzzy =>
        \A j \in 1..Len(dict) :
            TrueDistance(j) <= 2 =>
                \E k \in 1..Len(out.list) : out.list[k].word = dict[j]

\* C9 amended: when the rows for a word cannot be allocated, levenshteinDistance
\* returns INT_MAX, the word is treated as too far and left out, and spell
\* correction completes with the words within 2 whose rows were allocated (all of
\* them when at most 10); the program goes on to the menu.
C9_FailureSkipsWord ==
    Fuzzy =>
        LET scored == {j \in 1..Len(dict) : out.mallocOk[j] /\ TrueDistance(j) <= 2}
            shown  == {out.list[k].word : k \in 1..Len(out.list)}
        IN  /\ pc = "menu"
            /\ shown \subseteq {dict[j] : j \in scored}
            /\ Cardinality(scored) <= 10 => shown = {dict[j] : j \in scored}
            /\ \A k \in 1..Len(out.list) : out.list[k].distance <= 2

\* a word within 2 is left out after its allocation failed, another is printed
C9_Witness ==
    /\ Fuzzy
    /\ out.list # <<>>
    /\ \E j \in 1..Len(dict) :
          /\ ~out.mallocOk[j]
          /\ TrueDistance(j) <= 2
          /\ \A k \in 1..Len(out.list) : out.list[k].word # dict[j]

KeyOf(r) == [distance |-> r.distance, frequency |-> r.frequency]

KeyBetter(a, b) ==
    \/ a.distance < b.distance
    \/ (a.distance = b.distance /\ a.frequency > b.frequency)

Kept(key) == Cardinality({k \in 1..Len(list) : KeyOf(list[k]) = key})

Min2(a, b) == IF a < b THEN a ELSE b

\* how many records of this key are among the best n of those offered
RECURSIVE SumOffered(_)
SumOffered(keys) ==
    IF keys = {} THEN 0
    ELSE LET k == CHOOSE k \in keys : TRUE
         IN  offered[k] + SumOffered(keys \ {k})

BestCount(key, n) ==
    LET before == SumOffered({k \in OfferKeys : KeyBetter(k, key)})
    IN  IF before >= n THEN 0 ELSE Min2(offered[key], n - before)

\* C10: after n offers to a fresh list it holds min(n, 10) records whose keys
\* are, as a multiset, the min(n, 10) best keys offered (distance ascending, then
\* frequency descending); no discarded record is better than a retained one.
C10_TopK ==
    LET n == Min2(Offered, 10)
    IN  /\ Len(list) = n
        /\ \A key \in OfferKeys : Kept(key) = BestCount(key, n)
        /\ \A key \in OfferKeys :
              offered[key] > Kept(key) =>
                  \A k \in 1..Len(list) : ~KeyBetter(key, KeyOf(list[k]))

\* a full list has replaced its worst record by a better offer
C10_Witness ==
    /\ Offered > 10
    /\ \E key \in OfferKeys :
          /\ offered[key] > Kept(key)
          /\ \E k \in 1..Len(list) : KeyBetter(KeyOf(list[k]), key)
    /\ \E key \in OfferKeys : Kept(key) > 0 /\ Kept(key) < 10

====
